---- MODULE Spec2Model ----
(***************************************************************************)
(* The Gemini rewrite plugin (src/unnamed/part_000): the rewrite-request   *)
(* lifecycle (rewriteWithGemini / callGeminiAPI / cancelOngoingRewrite),   *)
(* the bounded history log (addToHistory, the history viewer, the Max      *)
(* History Items slider) and the settings handlers.                        *)
(*                                                                         *)
(* The host is single-threaded: a handler runs to its next await, and the  *)
(* continuation of a settled promise runs as a microtask before any other  *)
(* command or network event.  One action is therefore one handler up to    *)
(* its await, or one network event with the whole continuation it wakes.   *)
(***************************************************************************)
EXTENDS Integers, Sequences, FiniteSets, TLC

VARIABLES
  settings,         \* GeminiRewritePlugin.settings (GeminiRewriteSettings)
  saved,            \* what saveData last wrote
  env,              \* process.env.GEMINI_API_KEY
  abortController,  \* <<>> is null, <<r>> the controller whose signal fetch r holds,
                    \* <<0>> a controller created by a call that never reached fetch
  statusBarItem,    \* text of the status bar item
  calls,            \* the fetch requests issued so far, in order of issue
  editor,           \* the text last written by editor.replaceSelection
  modal,            \* RewriteHistoryModal: open flag and the items its closures captured
  edits,            \* number of setting changes made in the settings tab so far
  notices           \* the Notice texts raised by the latest step

vars == <<settings, saved, env, abortController, statusBarItem, calls, editor,
          modal, notices, edits>>

-----------------------------------------------------------------------------
(* Bounds of the model *)

\* number of fetch requests issued in one run
MaxCalls == 2

\* upper end of the Max History Items slider in the model (50 in the source)
SliderMax == 2

\* number of setting changes (toggle, key, model, prompt, slider) in one run
MaxEdits == 1

-----------------------------------------------------------------------------
(* Input domains *)

Selections == {"", "draft"}
ApiKeys == {"", "sk"}
EnvKeys == {"", "ek"}
Prompts == {"Please rewrite the following text:", "Shorten:"}
Statuses == {200, 429}

GEMINI_MODELS ==
  [m \in {"gemini-pro", "gemini-2.0-flash"} |->
     IF m = "gemini-pro" THEN "Gemini Pro" ELSE "Gemini 2.0 Flash (Faster)"]

Models == DOMAIN GEMINI_MODELS

DEFAULT_SETTINGS ==
  [geminiApiKey |-> "",
   customPrompt |-> "Please rewrite the following text:",
   useEnvApiKey |-> TRUE,
   maxHistoryItems |-> 10,
   rewriteHistory |-> <<>>,
   selectedModel |-> "gemini-2.0-flash"]

\* response.json() of a 2xx response: the parsed body, or a body that is not JSON
OkBodies ==
  { [candidates |-> <<[content |-> [parts |-> <<[text |-> "Rewritten."]>>]]>>],
    [candidates |-> <<[content |-> [parts |-> <<[text |-> ""]>>]]>>],
    [candidates |-> <<>>],
    [promptFeedback |-> "blocked"],
    [unparseable |-> TRUE] }

\* response.json() of a non-2xx response
ErrBodies ==
  { [error |-> [message |-> "rate limited"]],
    [error |-> [message |-> ""]],
    [error |-> [code |-> "RESOURCE_EXHAUSTED"]],
    [unparseable |-> TRUE] }

-----------------------------------------------------------------------------
(* Values *)

NoError == [name |-> "", message |-> ""]
Err(name, message) == [name |-> name, message |-> message]

DoneCall == [pc |-> "done", text |-> "", prompt |-> "", model |-> "", apiKey |-> "",
             status |-> 0]

ModalClosed == [open |-> FALSE, items |-> <<>>]

-----------------------------------------------------------------------------
(* Array operations of the history log *)

Min(a, b) == IF a < b THEN a ELSE b

\* Array.prototype.slice(0, end), end >= 0
slice(arr, end) == SubSeq(arr, 1, Min(end, Len(arr)))

\* Array.prototype.unshift(item)
unshift(arr, item) == <<item>> \o arr

\* Array.prototype.splice(index, 1), index >= 0 (0-based): nothing is removed
\* when index is not a position of arr
splice(arr, index) ==
  IF index < Len(arr)
  THEN SubSeq(arr, 1, index) \o SubSeq(arr, index + 2, Len(arr))
  ELSE arr

\* HistoryItem with the two texts exchanged
HistoryItem_Swapped(s, originalText, rewrittenText, prompt, call) ==
  [originalText |-> rewrittenText,
   rewrittenText |-> originalText,
   prompt |-> prompt,
   model |-> s.selectedModel,
   call |-> call]

\* The RewriteHistoryItem addToHistory builds.  Date.now() is not modelled; `call`
\* is the identity of the item object (the fetch request that produced it).
HistoryItem(s, originalText, rewrittenText, prompt, call) ==
  [originalText |-> originalText,
   rewrittenText |-> rewrittenText,
   prompt |-> prompt,
   model |-> s.selectedModel,
   call |-> call]

\* addToHistory trimming one record too late (>= length kept is limit + 1)
addToHistory_OffByOne(s, originalText, rewrittenText, prompt, call) ==
  LET added == unshift(s.rewriteHistory,
                       HistoryItem(s, originalText, rewrittenText, prompt, call))
  IN  [s EXCEPT !.rewriteHistory =
         IF Len(added) > s.maxHistoryItems + 1
         THEN slice(added, s.maxHistoryItems + 1)
         ELSE added]

\* addToHistory: the settings after unshift and the trim to maxHistoryItems
addToHistory(s, originalText, rewrittenText, prompt, call) ==
  LET added == unshift(s.rewriteHistory,
                       HistoryItem(s, originalText, rewrittenText, prompt, call))
  IN  [s EXCEPT !.rewriteHistory =
         IF Len(added) > s.maxHistoryItems
         THEN slice(added, s.maxHistoryItems)
         ELSE added]

\* the slider handler keeping the oldest records instead of the newest
setMaxHistoryItems_KeepOldest(s, value) ==
  [s EXCEPT !.maxHistoryItems = value,
            !.rewriteHistory =
              IF Len(s.rewriteHistory) > value
              THEN SubSeq(s.rewriteHistory, Len(s.rewriteHistory) - value + 1,
                          Len(s.rewriteHistory))
              ELSE s.rewriteHistory]

\* Max History Items slider, onChange(value)
setMaxHistoryItems(s, value) ==
  [s EXCEPT !.maxHistoryItems = value,
            !.rewriteHistory =
              IF Len(s.rewriteHistory) > value
              THEN slice(s.rewriteHistory, value)
              ELSE s.rewriteHistory]

-----------------------------------------------------------------------------
(* callGeminiAPI: credential, response handling *)

\* const apiKey = useEnvApiKey ? process.env.GEMINI_API_KEY || geminiApiKey : geminiApiKey
EffectiveApiKey(s, e) ==
  IF s.useEnvApiKey
  THEN (IF e # "" THEN e ELSE s.geminiApiKey)
  ELSE s.geminiApiKey

MissingKeyMessage ==
  "Gemini API key is not set. Please add it to your .env file or plugin settings."

\* response.ok without the upper end of the 2xx range
ResponseOk_NoUpperEnd(status) == status >= 200

\* response.ok
ResponseOk(status) == status >= 200 /\ status <= 299

\* errorData?.error?.message, <<>> when a link of the chain is undefined
\* (errorData is null when response.json() rejected)
ErrorDataMessage(errorData) ==
  IF "error" \in DOMAIN errorData /\ "message" \in DOMAIN errorData.error
  THEN <<errorData.error.message>>
  ELSE <<>>

\* errorMessage with ?? in place of ||: an empty message is kept
errorMessage_KeepsEmpty(errorData, status) ==
  LET m == ErrorDataMessage(errorData)
  IN  IF m # <<>> THEN m[1] ELSE "Status: " \o ToString(status)

\* errorData?.error?.message || `Status: ${response.status}`
errorMessage(errorData, status) ==
  LET m == ErrorDataMessage(errorData)
  IN  IF m # <<>> /\ m[1] # "" THEN m[1] ELSE "Status: " \o ToString(status)

\* new Error(`API request failed: ${errorMessage}`)
UpstreamError(errorData, status) ==
  Err("Error", "API request failed: " \o errorMessage(errorData, status))

\* data.candidates?.[0]?.content?.parts?.[0]?.text, <<>> when undefined
CandidateText(data) ==
  IF /\ "candidates" \in DOMAIN data
     /\ Len(data.candidates) >= 1
     /\ "content" \in DOMAIN data.candidates[1]
     /\ "parts" \in DOMAIN data.candidates[1].content
     /\ Len(data.candidates[1].content.parts) >= 1
     /\ "text" \in DOMAIN data.candidates[1].content.parts[1]
  THEN <<data.candidates[1].content.parts[1].text>>
  ELSE <<>>

\* !data.candidates?.[0]?.content?.parts?.[0]?.text
InvalidResponse(data) ==
  LET t == CandidateText(data) IN t = <<>> \/ t[1] = ""

\* what the body of a settled response makes callGeminiAPI do: the error it
\* throws, or NoError when it returns the candidate text
BodyError(status, body) ==
  IF ~ResponseOk(status)
  THEN UpstreamError(body, status)
  ELSE IF "unparseable" \in DOMAIN body
  THEN Err("SyntaxError", "Unexpected token in JSON")
  ELSE IF InvalidResponse(body)
  THEN Err("Error", "Invalid response from Gemini API")
  ELSE NoError

-----------------------------------------------------------------------------
(* rewriteWithGemini: status bar and the catch block *)

\* setLoadingState(isLoading)
setLoadingState(s, isLoading) ==
  IF isLoading
  THEN "Rewriting with " \o
       (IF s.selectedModel \in DOMAIN GEMINI_MODELS
        THEN GEMINI_MODELS[s.selectedModel] ELSE s.selectedModel) \o "..."
  ELSE ""

\* rewriteWithGemini without the early return
NoSelection_Never(selection) == FALSE

\* if (!selection) { new Notice("No text selected"); return; }
NoSelection(selection) == selection = ""

\* the catch block without the AbortError test
ErrorNotice_Always(error) ==
  <<"Error: " \o
    (IF error.message # "" THEN error.message ELSE "Failed to rewrite text")>>

\* catch (error) { if (error.name !== "AbortError") new Notice(`Error: ...`) }
ErrorNotice(error) ==
  IF error.name # "AbortError"
  THEN <<"Error: " \o
         (IF error.message # "" THEN error.message ELSE "Failed to rewrite text")>>
  ELSE <<>>

-----------------------------------------------------------------------------
(* Initial state: onload with the defaults merged with the stored data *)

Init ==
  /\ \E n \in 0..SliderMax, e \in EnvKeys :
       /\ settings = [DEFAULT_SETTINGS EXCEPT !.maxHistoryItems = n]
       /\ env = e
  /\ saved = settings
  /\ abortController = <<>>
  /\ statusBarItem = ""
  /\ calls = <<>>
  /\ editor = ""
  /\ modal = ModalClosed
  /\ notices = <<>>
  /\ edits = 0

InFlight(r) == r \in 1..Len(calls) /\ calls[r].pc # "done"

-----------------------------------------------------------------------------
(* The rewrite command *)

\* rewriteWithGemini with nothing selected
RewriteNoSelection(selection) ==
  /\ NoSelection(selection)
  /\ notices' = <<"No text selected">>
  /\ UNCHANGED <<edits, settings, saved, env, abortController, statusBarItem, calls,
                 editor, modal>>

\* rewriteWithGemini -> callGeminiAPI throws before the try block: no fetch, and
\* the finally clause that clears abortController is not entered
RewriteMissingKey(selection) ==
  /\ ~NoSelection(selection)
  /\ EffectiveApiKey(settings, env) = ""
  /\ abortController' = <<0>>
  /\ statusBarItem' = setLoadingState(settings, FALSE)
  /\ notices' = ErrorNotice(Err("Error", MissingKeyMessage))
  /\ UNCHANGED <<edits, settings, saved, env, calls, editor, modal>>

\* rewriteWithGemini -> callGeminiAPI up to `await fetch(...)`
RewriteFetch(selection) ==
  /\ ~NoSelection(selection)
  /\ EffectiveApiKey(settings, env) # ""
  /\ Len(calls) < MaxCalls
  /\ statusBarItem' = setLoadingState(settings, TRUE)
  /\ abortController' = <<Len(calls) + 1>>
  /\ calls' = Append(calls, [pc |-> "fetch", text |-> selection,
                             prompt |-> settings.customPrompt,
                             model |-> settings.selectedModel,
                             apiKey |-> EffectiveApiKey(settings, env),
                             status |-> 0])
  /\ notices' = <<>>
  /\ UNCHANGED <<edits, settings, saved, env, editor, modal>>

\* the editorCallback of "gemini-rewrite-selection"
rewriteWithGemini(selection) ==
  \/ RewriteNoSelection(selection)
  \/ RewriteMissingKey(selection)
  \/ RewriteFetch(selection)

\* callGeminiAPI of request r settles (returns text, or throws error) and
\* rewriteWithGemini resumes: catch/finally of callGeminiAPI, then the rest of
\* rewriteWithGemini.  `before` are the notices the running handler raised first.
Settle(r, error, text, before) ==
  /\ abortController' = <<>>
  /\ statusBarItem' = setLoadingState(settings, FALSE)
  /\ calls' = [calls EXCEPT ![r] = DoneCall]
  /\ IF error = NoError
     THEN /\ editor' = text
          /\ settings' = addToHistory(settings, calls[r].text, text,
                                      settings.customPrompt, r)
          /\ saved' = settings'
          /\ notices' = before \o <<"Text successfully rewritten">>
     ELSE /\ notices' = before \o ErrorNotice(error)
          /\ UNCHANGED <<settings, saved, editor>>
  /\ UNCHANGED <<edits, env, modal>>

\* fetch of request r resolves with a response of this status; callGeminiAPI goes
\* on to `await response.json()` in either branch
FetchResolves(r, status) ==
  /\ InFlight(r) /\ calls[r].pc = "fetch"
  /\ calls' = [calls EXCEPT ![r].pc = "body", ![r].status = status]
  /\ notices' = <<>>
  /\ UNCHANGED <<edits, settings, saved, env, abortController, statusBarItem, editor,
                 modal>>

\* fetch of request r rejects (no connection)
FetchRejects(r) ==
  /\ InFlight(r) /\ calls[r].pc = "fetch"
  /\ Settle(r, Err("TypeError", "Failed to fetch"), "", <<>>)

\* response.json() of request r settles with this body
JsonSettles(r, body) ==
  /\ InFlight(r) /\ calls[r].pc = "body"
  /\ body \in (IF ResponseOk(calls[r].status) THEN OkBodies ELSE ErrBodies)
  /\ LET error == BodyError(calls[r].status, body)
     IN  Settle(r, error, IF error = NoError THEN CandidateText(body)[1] ELSE "", <<>>)

-----------------------------------------------------------------------------
(* The cancel command *)

\* what abort() makes the pending await of request r throw: fetch rejects with an
\* AbortError; response.json() rejects with one too, which the non-2xx branch
\* swallows (.catch(() => null)) and turns into the status error
AbortOutcome(c) ==
  IF c.pc = "body" /\ ~ResponseOk(c.status)
  THEN UpstreamError([unparseable |-> TRUE], c.status)
  ELSE Err("AbortError", "The user aborted a request.")

\* callback of "gemini-cancel-rewrite": the Notice, then cancelOngoingRewrite
cancelOngoingRewrite ==
  LET attempt == <<"Attempting to cancel ongoing rewrite request">>
  IN
  IF abortController = <<>>
  THEN /\ notices' = attempt
       /\ UNCHANGED <<edits, settings, saved, env, abortController, statusBarItem, calls,
                      editor, modal>>
  ELSE LET r == abortController[1]
           cancelled == attempt \o <<"Rewrite request cancelled">>
       IN  IF InFlight(r)
           THEN Settle(r, AbortOutcome(calls[r]), "", cancelled)
           ELSE /\ abortController' = <<>>
                /\ statusBarItem' = setLoadingState(settings, FALSE)
                /\ notices' = cancelled
                /\ UNCHANGED <<edits, settings, saved, env, calls, editor, modal>>

-----------------------------------------------------------------------------
(* The history viewer (RewriteHistoryModal) *)

\* showRewriteHistory; onOpen captures (item, index) of every record in closures
showRewriteHistory ==
  /\ ~modal.open
  /\ IF Len(settings.rewriteHistory) = 0
     THEN /\ notices' = <<"No rewrite history available">>
          /\ UNCHANGED modal
     ELSE /\ notices' = <<>>
          /\ modal' = [open |-> TRUE, items |-> settings.rewriteHistory]
  /\ UNCHANGED <<edits, settings, saved, env, abortController, statusBarItem, calls,
                 editor>>

\* click on the Delete button of the item rendered at position index (0-based):
\* splice(index, 1), saveSettings, close(), open()
DeleteItem(index) ==
  /\ modal.open
  /\ index \in 0..(Len(modal.items) - 1)
  /\ settings' = [settings EXCEPT !.rewriteHistory = splice(@, index)]
  /\ saved' = settings'
  /\ modal' = [open |-> TRUE, items |-> settings'.rewriteHistory]
  /\ notices' = <<"History item deleted">>
  /\ UNCHANGED <<edits, env, abortController, statusBarItem, calls, editor>>

\* click on "Clear All History" in the viewer
ClearAllHistory ==
  /\ modal.open
  /\ settings' = [settings EXCEPT !.rewriteHistory = <<>>]
  /\ saved' = settings'
  /\ modal' = ModalClosed
  /\ notices' = <<"History cleared">>
  /\ UNCHANGED <<edits, env, abortController, statusBarItem, calls, editor>>

\* the viewer is dismissed: onClose
CloseModal ==
  /\ modal.open
  /\ modal' = ModalClosed
  /\ notices' = <<>>
  /\ UNCHANGED <<edits, settings, saved, env, abortController, statusBarItem, calls,
                 editor>>

-----------------------------------------------------------------------------
(* The settings tab (GeminiRewriteSettingTab.display) *)

SettingChanged(s) ==
  /\ edits < MaxEdits
  /\ edits' = edits + 1
  /\ settings' = s
  /\ saved' = s
  /\ notices' = <<>>
  /\ UNCHANGED <<env, abortController, statusBarItem, calls, editor, modal>>

ChangeUseEnvApiKey(value) ==
  /\ value # settings.useEnvApiKey
  /\ SettingChanged([settings EXCEPT !.useEnvApiKey = value])

ChangeApiKey(value) ==
  /\ value # settings.geminiApiKey
  /\ SettingChanged([settings EXCEPT !.geminiApiKey = value])

ChangeModel(value) ==
  /\ value # settings.selectedModel
  /\ SettingChanged([settings EXCEPT !.selectedModel = value])

ChangePrompt(value) ==
  /\ value # settings.customPrompt
  /\ SettingChanged([settings EXCEPT !.customPrompt = value])

ChangeMaxHistoryItems(value) ==
  /\ value # settings.maxHistoryItems
  /\ SettingChanged(setMaxHistoryItems(settings, value))

\* the "Clear History" button of the settings tab
ClearHistory ==
  /\ settings' = [settings EXCEPT !.rewriteHistory = <<>>]
  /\ saved' = settings'
  /\ notices' = <<"History cleared">>
  /\ UNCHANGED <<edits, env, abortController, statusBarItem, calls, editor, modal>>

-----------------------------------------------------------------------------

Next ==
  \/ \E selection \in Selections : rewriteWithGemini(selection)
  \/ \E r \in 1..MaxCalls, status \in Statuses : FetchResolves(r, status)
  \/ \E r \in 1..MaxCalls : FetchRejects(r)
  \/ \E r \in 1..MaxCalls, body \in OkBodies \cup ErrBodies : JsonSettles(r, body)
  \/ cancelOngoingRewrite
  \/ showRewriteHistory
  \/ \E index \in 0..(SliderMax - 1) : DeleteItem(index)
  \/ ClearAllHistory
  \/ CloseModal
  \/ \E value \in BOOLEAN : ChangeUseEnvApiKey(value)
  \/ \E value \in ApiKeys : ChangeApiKey(value)
  \/ \E value \in Models : ChangeModel(value)
  \/ \E value \in Prompts : ChangePrompt(value)
  \/ \E value \in 0..SliderMax : ChangeMaxHistoryItems(value)
  \/ ClearHistory

Spec == Init /\ [][Next]_vars

-----------------------------------------------------------------------------
(* Properties of the history log *)

History == settings.rewriteHistory

\* the log without the record `item` (records are distinct objects)
Without(log, item) == SelectSeq(log, LAMBDA x : x # item)

\* C1: the history log never holds more records than maxHistoryItems, whatever
\* appends, deletes, clears and limit changes happened; with a limit of 0 it is
\* empty after every append.
C1_LengthWithinLimit == Len(History) <= settings.maxHistoryItems

\* C1 witness: a rewrite has just been recorded under a limit of 0 that was never
\* changed, and the log is empty.
C1_AppendUnderZeroLimit ==
  /\ settings.maxHistoryItems = 0
  /\ edits = 0
  /\ notices = <<"Text successfully rewritten">>
  /\ editor = "Rewritten."
  /\ History = <<>>

\* C7: a change of the limit to N leaves a log of length L <= N as it is and cuts
\* a longer one to its first N records (the N newest), in their order.
C7_SetLimitKeepsNewest ==
  [][settings'.maxHistoryItems # settings.maxHistoryItems =>
       LET N == settings'.maxHistoryItems
       IN  /\ Len(History') = IF Len(History) > N THEN N ELSE Len(History)
           /\ \A i \in 1..Len(History') : History'[i] = History[i]]_vars

\* C7 witness: the viewer still shows two records, the limit went from 2 to 1 and
\* only the newer record is left.
C7_TruncatedToNewest ==
  /\ modal.open
  /\ Len(modal.items) = 2
  /\ edits = 1
  /\ settings.maxHistoryItems = 1
  /\ History = <<modal.items[1]>>

\* C8: Delete on a viewer item removes exactly the record that item shows and
\* leaves the others in order; an index outside the log removes nothing.
C8_DeleteRemovesShownItem ==
  [][\A index \in 0..(SliderMax - 1) :
       DeleteItem(index) =>
         IF index < Len(History)
         THEN /\ Len(History') = Len(History) - 1
              /\ History' = Without(History, modal.items[index + 1])
         ELSE History' = History]_vars

-----------------------------------------------------------------------------
(* Properties of the rewrite request *)

CancelNotices ==
  <<"Attempting to cancel ongoing rewrite request", "Rewrite request cancelled">>

\* the most recently started request
Latest == Len(calls)

\* C2: when the cancel command runs while the most recently started request still
\* awaits its response, that request is aborted and ends as a cancellation.
C2_CancelAbortsLatest ==
  [][(cancelOngoingRewrite /\ Latest >= 1 /\ calls[Latest].pc = "fetch") =>
       /\ calls'[Latest].pc = "done"
       /\ notices' = CancelNotices]_vars

\* C3: a rewrite whose request is aborted through the tracked handle before its
\* response arrived records nothing in the history, does not replace the
\* selection and raises no error notice.
C3_CancelledIsSilent ==
  [][(/\ cancelOngoingRewrite
      /\ abortController # <<>>
      /\ InFlight(abortController[1])
      /\ calls[abortController[1]].pc = "fetch") =>
       /\ History' = History
       /\ editor' = editor
       /\ calls'[abortController[1]].pc = "done"
       /\ notices' = CancelNotices]_vars

\* C3 witness: the only request issued was cancelled (no setting was ever
\* changed, so no call stopped at the missing key).
C3_RequestCancelled ==
  /\ notices = CancelNotices
  /\ edits = 0
  /\ Len(calls) = 1
  /\ calls[1].pc = "done"
  /\ History = <<>>
  /\ editor = ""

\* the effects of a rewrite that succeeds with `text` for request r
Succeeds(r, text) ==
  /\ editor' = text
  /\ notices' = <<"Text successfully rewritten">>
  /\ settings.maxHistoryItems >= 1 =>
       /\ Len(History') = Min(Len(History) + 1, settings.maxHistoryItems)
       /\ History'[1].originalText = calls[r].text
       /\ History'[1].rewrittenText = text
       /\ History'[1].call = r
       /\ \A i \in 2..Len(History') : History'[i] = History[i - 1]

\* C4 as claimed: every 2xx response that holds candidates[0].content.parts[0].text
\* makes the rewrite return that text and put one record for it at the head of
\* the log, for a tracked and for an orphaned request alike.
C4_TextPresentSucceeds ==
  [][\A r \in 1..MaxCalls, body \in OkBodies :
       (JsonSettles(r, body) /\ CandidateText(body) # <<>>) =>
         Succeeds(r, CandidateText(body)[1])]_vars

\* C4 amended: the same for every 2xx response whose candidate text is a
\* non-empty string.
C4_NonEmptyTextSucceeds ==
  [][\A r \in 1..MaxCalls, body \in OkBodies :
       (/\ JsonSettles(r, body)
        /\ CandidateText(body) # <<>>
        /\ CandidateText(body)[1] # "") =>
         Succeeds(r, CandidateText(body)[1])]_vars

\* C4 witness: request 1 has just succeeded and is at the head of the log while
\* request 2, which took over the handle, is still in flight.
C4_OrphanRecorded ==
  /\ notices = <<"Text successfully rewritten">>
  /\ Len(calls) = 2
  /\ calls[2].pc # "done"
  /\ Len(History) >= 1
  /\ History[1].call = 1
  /\ History[1].originalText = "draft"
  /\ History[1].rewrittenText = "Rewritten."

\* C5: a rewrite that ends for a missing key, a non-2xx status or a 2xx body
\* without the candidate text path leaves the history log and the editor alone.
C5_FailureRecordsNothing ==
  [][(\/ \E selection \in Selections : RewriteMissingKey(selection)
      \/ \E r \in 1..MaxCalls, body \in OkBodies \cup ErrBodies :
           /\ JsonSettles(r, body)
           /\ \/ calls[r].status \notin 200..299
              \/ CandidateText(body) = <<>>) =>
       /\ History' = History
       /\ editor' = editor]_vars

\* C5 witness: a 2xx response without candidates has just been refused, nothing
\* was recorded or replaced.
C5_MalformedRefused ==
  /\ notices = <<"Error: Invalid response from Gemini API">>
  /\ History = <<>>
  /\ editor = ""
  /\ \E r \in 1..Len(calls) : calls[r].pc = "done"

\* C6: the rewrite command with nothing selected issues no request, leaves the
\* history, the tracked handle and the status bar as they are and only says
\* "No text selected".
C6_EmptySelectionDoesNothing ==
  [][rewriteWithGemini("") =>
       /\ calls' = calls
       /\ settings' = settings
       /\ saved' = saved
       /\ editor' = editor
       /\ abortController' = abortController
       /\ statusBarItem' = statusBarItem
       /\ notices' = <<"No text selected">>]_vars

\* C6 witness: the command ran with nothing selected while a request was in
\* flight; handle and loading text are still there.
C6_EmptySelectionWhileLoading ==
  /\ notices = <<"No text selected">>
  /\ abortController # <<>>
  /\ statusBarItem # ""
  /\ \E r \in 1..Len(calls) : calls[r].pc = "fetch"

\* the credential the documentation describes: the environment key when
\* useEnvApiKey is set, the settings key otherwise
DocumentedApiKey == IF settings.useEnvApiKey THEN env ELSE settings.geminiApiKey

\* C9: a rewrite uses the documented credential, and when that is empty it fails
\* for the missing key without issuing a request.
C9_DocumentedCredential ==
  [][\A selection \in Selections \ {""} :
       rewriteWithGemini(selection) =>
         IF DocumentedApiKey = ""
         THEN /\ calls' = calls
              /\ notices' = <<"Error: " \o MissingKeyMessage>>
         ELSE /\ Len(calls') = Len(calls) + 1
              /\ calls'[Len(calls')].apiKey = DocumentedApiKey]_vars

\* error.message of the body of a non-2xx response, <<>> when there is none
BodyMessage(body) ==
  IF "error" \in DOMAIN body /\ "message" \in DOMAIN body.error
  THEN <<body.error.message>>
  ELSE <<>>

\* C10 as claimed: the error of a non-2xx response carries exactly the body's
\* error.message when the body has one, and the raw status code otherwise.
C10_MessageVerbatim ==
  [][\A r \in 1..MaxCalls, body \in ErrBodies :
       (JsonSettles(r, body) /\ calls[r].status \notin 200..299) =>
         notices' = <<"Error: " \o
                      (IF BodyMessage(body) # <<>>
                       THEN BodyMessage(body)[1]
                       ELSE ToString(calls[r].status))>>]_vars

\* C10 amended: the message is "API request failed: " followed by the body's
\* error.message when the body was read and that field is a non-empty string,
\* and by "Status: <code>" otherwise (no such field, an empty one, a body that
\* is not JSON, or a body whose read was aborted by the cancel command).
C10_MessagePrefixed ==
  [][/\ \A r \in 1..MaxCalls, body \in ErrBodies :
          (JsonSettles(r, body) /\ calls[r].status \notin 200..299) =>
            notices' = <<"Error: API request failed: " \o
                         (IF BodyMessage(body) # <<>> /\ BodyMessage(body)[1] # ""
                          THEN BodyMessage(body)[1]
                          ELSE "Status: " \o ToString(calls[r].status))>>
     /\ (/\ cancelOngoingRewrite
         /\ abortController # <<>>
         /\ InFlight(abortController[1])
         /\ calls[abortController[1]].pc = "body"
         /\ calls[abortController[1]].status \notin 200..299) =>
          notices' = CancelNotices \o
                     <<"Error: API request failed: Status: " \o
                       ToString(calls[abortController[1]].status)>>]_vars

\* C10 witness: a 429 with error.message "rate limited" has just been reported.
C10_RateLimitedReported ==
  /\ notices = <<"Error: API request failed: rate limited">>
  /\ \E r \in 1..Len(calls) : calls[r].pc = "done"

-----------------------------------------------------------------------------
(* Properties of the status bar, the recorded settings and the handle *)

\* C11: while some request has been issued and has not yet completed, failed or
\* been cancelled, the status bar shows the loading text.
C11_LoadingWhileInFlight ==
  (\E r \in 1..Len(calls) : InFlight(r)) => statusBarItem # ""

\* C12: the record written for a successful rewrite carries the prompt and the
\* model that were sent in that request, also when the settings were changed
\* while it was in flight.
C12_RecordCarriesSentSettings ==
  [][\A r \in 1..MaxCalls, body \in OkBodies :
       (/\ JsonSettles(r, body)
        /\ BodyError(calls[r].status, body) = NoError
        /\ settings.maxHistoryItems >= 1) =>
         /\ History'[1].call = r
         /\ History'[1].prompt = calls[r].prompt
         /\ History'[1].model = calls[r].model]_vars

\* C13: with no request in flight the tracked handle is null, so the cancel
\* command then changes nothing and does not say "Rewrite request cancelled".
C13_HandleOnlyWhileInFlight ==
  [][/\ (\A r \in 1..Len(calls') : calls'[r].pc = "done") => abortController' = <<>>
     /\ (cancelOngoingRewrite /\ \A r \in 1..Len(calls) : ~InFlight(r)) =>
          /\ notices' = <<"Attempting to cancel ongoing rewrite request">>
          /\ UNCHANGED <<settings, saved, abortController, statusBarItem, calls,
                         editor, modal>>]_vars

====
